---- MODULE Spec2Model ----
(***************************************************************************)
(* Model of the dofs storage engine (packages/dofs/src/Fs.ts): the files,  *)
(* chunks and meta tables of one filesystem instance and the engine's      *)
(* operations on them.  Every operation is a pure operator from a store    *)
(* value to [s |-> store after the call, res |-> "ok" or the error name];  *)
(* an exception leaves the statements executed before it in place, as the  *)
(* engine opens no transaction.                                            *)
(***************************************************************************)
EXTENDS Integers, Sequences, FiniteSets, TLC

VARIABLES
  files,   \* dofs_files: ino -> [name, parent, is_dir, attr, data]
  chunks,  \* dofs_chunks: <<ino, offset>> -> [data, length]
  meta,    \* dofs_meta: [device_size, space_used]
  calls,   \* number of calls completed so far
  upload,  \* the writeFile(path, stream) call suspended at reader.read(), if any
  mgr,     \* the WebSocket manager of the FUSE client: its closure variables
  response \* the last response frame the WebSocket handler sent, if any

vars == <<files, chunks, meta, calls, upload, mgr, response>>

(* ------------------------------ bounds -------------------------------- *)

\* Number of calls explored from the constructed state.
MaxCalls == 2
\* Longest buffer handed to write / writeFile, longest piece of a stream.
MaxData == 2
\* Largest write offset and truncate size.
MaxOffset == 2
\* Largest device size handed to setDeviceSize.
MaxDevice == 2
\* Largest number of pieces a stream yields.
MaxPieces == 2

RECURSIVE SeqsUpTo(_, _)
SeqsUpTo(S, n) ==
  IF n = 0 THEN {<<>>}
  ELSE LET shorter == SeqsUpTo(S, n - 1)
       IN shorter \cup {Append(q, x) : q \in {r \in shorter : Len(r) = n - 1}, x \in S}

\* The buffer of n bytes whose i-th byte is i (stored zero fill is 0).
Ramp(n) == [i \in 1 .. n |-> i]

\* The paths handed to the operations: '/', '/a', '/b' and '/a/b'.
Paths == {<<>>, <<"a">>, <<"b">>, <<"a", "b">>}
Data == {Ramp(n) : n \in 0 .. MaxData}
Offsets == 0 .. MaxOffset
\* The symlink target used.
Target == Ramp(1)

(* --------------------------- configuration ---------------------------- *)

\* this.chunkSize (options.chunkSize); the spec's scenarios use a small one.
chunkSize == 2
\* (1024 * 1024 * 1024), the device_size seeded by ensureSchema.
DefaultDeviceSize == 1073741824

Min(a, b) == IF a < b THEN a ELSE b

\* A stream yields pieces shorter than a chunk and pieces of a whole chunk.
Streams == SeqsUpTo({Ramp(1), Ramp(chunkSize)}, MaxPieces)

(* ------------------------------ tables -------------------------------- *)

\* A store value: the three tables.
Store(f, c, m) == [files |-> f, chunks |-> c, meta |-> m]

Ok(s) == [s |-> s, res |-> "ok"]
Err(s, e) == [s |-> s, res |-> e]

\* rootDirAttr / the root row inserted by ensureSchema; parent NULL is 0.
rootRow == [name |-> "/", parent |-> 0, is_dir |-> 1,
            attr |-> [kind |-> "Directory", size |-> 0, perm |-> 493, nlink |-> 2],
            data |-> <<>>]

\* The empty chunks table.
NoChunks == [k \in {} |-> [data |-> <<>>, length |-> 0]]

\* The store after ensureSchema on an empty database.
ensureSchema ==
  Store(1 :> rootRow, NoChunks, [device_size |-> DefaultDeviceSize, space_used |-> 0])

\* options?.chunkSize ?? 4096
DefaultChunkSize == 4096

\* An ensureSchema that writes its seed rows whether or not they are there.
ensureSchemaAgain_Reseed(s) ==
  Store((1 :> rootRow) @@ s.files, s.chunks,
        [device_size |-> DefaultDeviceSize, space_used |-> 0])

\* ensureSchema on a database that already holds the tables of s: each meta
\* row is inserted when its key has no row, the root row when no row has
\* ino = 1.
ensureSchemaAgain(s) ==
  LET m1 == IF "device_size" \in DOMAIN s.meta THEN s.meta
            ELSE [device_size |-> DefaultDeviceSize] @@ s.meta
      m2 == IF "space_used" \in DOMAIN m1 THEN m1 ELSE [space_used |-> 0] @@ m1
      f2 == IF 1 \in DOMAIN s.files THEN s.files ELSE (1 :> rootRow) @@ s.files
  IN Store(f2, s.chunks, m2)

\* new Fs(ctx, env, options) over the stored tables s: takes the chunk size
\* of the options (4096 without one) and runs ensureSchema; nothing about the
\* chunk size is stored or compared.
constructor(s, options) ==
  [s |-> ensureSchemaAgain(s),
   chunkSize |-> IF "chunkSize" \in DOMAIN options THEN options.chunkSize
                 ELSE DefaultChunkSize,
   res |-> "ok"]

\* Keys of the chunks rows of inode ino.
ChunkKeys(c, ino) == {k \in DOMAIN c : k[1] = ino}

\* SELECT SUM(length) FROM dofs_chunks over a set of keys.
RECURSIVE SumLength(_, _)
SumLength(c, keys) ==
  IF keys = {} THEN 0
  ELSE LET k == CHOOSE x \in keys : TRUE
       IN c[k].length + SumLength(c, keys \ {k})

\* DELETE FROM dofs_chunks WHERE ino = ?
DeleteChunks(c, ino) == [k \in DOMAIN c \ ChunkKeys(c, ino) |-> c[k]]

\* DELETE FROM dofs_files WHERE ino = ?
DeleteFile(f, ino) == [i \in DOMAIN f \ {ino} |-> f[i]]

\* SELECT ino FROM dofs_files WHERE parent = ? AND name = ?
Lookup(f, parent, name) ==
  {i \in DOMAIN f : f[i].parent = parent /\ f[i].name = name}

\* SELECT COUNT(*) FROM dofs_files WHERE parent = ?
ChildCount(f, ino) == Cardinality({i \in DOMAIN f : f[i].parent = ino})

getDeviceSize(s) == s.meta.device_size
getSpaceUsed(s) == s.meta.space_used

\* resolvePathToInode: '/' and '' are 1 without a lookup; 0 stands for the
\* thrown ENOENT.  The walk starts from parent.
RECURSIVE Walk(_, _, _)
Walk(f, parent, parts) ==
  IF parts = <<>> THEN parent
  ELSE LET hit == Lookup(f, parent, Head(parts))
       IN IF hit = {} THEN 0
          ELSE Walk(f, CHOOSE i \in hit : TRUE, Tail(parts))

resolvePathToInode(s, path) == Walk(s.files, 1, path)

\* parts.slice(0, -1) and parts[parts.length - 1]
ParentPath(path) == SubSeq(path, 1, Len(path) - 1)
LeafName(path) == path[Len(path)]

\* allocInode: MAX(ino) + 1, or 2 when the table is empty.
allocInode(s) ==
  IF DOMAIN s.files = {} THEN 2
  ELSE (CHOOSE m \in DOMAIN s.files : \A i \in DOMAIN s.files : i <= m) + 1

\* A bookkeeping that adjusts space_used by the change in the size of ino
\* instead of recomputing it.
updateFileSizeAndSpaceUsed_Incremental(s, ino) ==
  LET size == SumLength(s.chunks, ChunkKeys(s.chunks, ino))
      before == IF ino \in DOMAIN s.files THEN s.files[ino].attr.size ELSE 0
      f2 == IF ino \in DOMAIN s.files
            THEN [s.files EXCEPT ![ino].attr.size = size]
            ELSE s.files
  IN Store(f2, s.chunks, [s.meta EXCEPT !.space_used = s.meta.space_used + size - before])

\* updateFileSizeAndSpaceUsed: size of ino := sum of its chunk lengths (an
\* UPDATE that touches no row when ino has none), space_used := sum of all.
updateFileSizeAndSpaceUsed(s, ino) ==
  LET size == SumLength(s.chunks, ChunkKeys(s.chunks, ino))
      f2 == IF ino \in DOMAIN s.files
            THEN [s.files EXCEPT ![ino].attr.size = size]
            ELSE s.files
      used == SumLength(s.chunks, DOMAIN s.chunks)
  IN Store(f2, s.chunks, [s.meta EXCEPT !.space_used = used])

\* Insert of a new row by create / mkdir / symlink.
NewRow(name, parent, isDir, kind, size, perm, nlink, data) ==
  [name |-> name, parent |-> parent, is_dir |-> isDir,
   attr |-> [kind |-> kind, size |-> size, perm |-> perm, nlink |-> nlink],
   data |-> data]

\* MakeEntry without the lookup of (parent, name).
MakeEntry_Unchecked(s, path, isDir, kind, size, perm, nlink, data) ==
  IF path = <<>> THEN Err(s, "EEXIST")
  ELSE LET parent == resolvePathToInode(s, ParentPath(path))
       IN IF parent = 0 THEN Err(s, "ENOENT")
          ELSE Ok(Store((allocInode(s) :> NewRow(LeafName(path), parent, isDir, kind,
                                                  size, perm, nlink, data)) @@ s.files,
                        s.chunks, s.meta))

\* Shared body of create / mkdir / symlink: empty path, parent lookup,
\* existence check, allocInode, INSERT.
MakeEntry(s, path, isDir, kind, size, perm, nlink, data) ==
  IF path = <<>> THEN Err(s, "EEXIST")
  ELSE LET parent == resolvePathToInode(s, ParentPath(path))
       IN IF parent = 0 THEN Err(s, "ENOENT")
          ELSE IF Lookup(s.files, parent, LeafName(path)) # {} THEN Err(s, "EEXIST")
          ELSE Ok(Store((allocInode(s) :> NewRow(LeafName(path), parent, isDir, kind,
                                                  size, perm, nlink, data)) @@ s.files,
                        s.chunks, s.meta))

create(s, path) == MakeEntry(s, path, 0, "File", 0, 420, 1, <<>>)

mkdir(s, path) == MakeEntry(s, path, 1, "Directory", 0, 493, 2, <<>>)

\* mkdir(path, options) with options that carry the recursive flag: the
\* code reads options.mode and options.umask only.
mkdirOptions(s, path, options) == mkdir(s, path)

symlink(s, target, path) == MakeEntry(s, path, 0, "Symlink", Len(target), 511, 1, target)

(* ---------------------------- chunk I/O ------------------------------- *)

Zeros(n) == [i \in 1 .. n |-> 0]

\* loadChunk: the stored blob as it is (its own length), or chunkSize zeros
\* when the row is absent.
loadChunk(s, ino, chunkOffset) ==
  IF <<ino, chunkOffset>> \in DOMAIN s.chunks
  THEN s.chunks[<<ino, chunkOffset>>].data
  ELSE Zeros(chunkSize)

\* chunkData.set(slice, at): defined only when the slice fits in chunkData
\* (TypedArray.set throws RangeError otherwise).
SetFits(chunkData, slice, at) == at + Len(slice) <= Len(chunkData)
SetAt(chunkData, slice, at) ==
  [i \in 1 .. Len(chunkData) |->
     IF i > at /\ i <= at + Len(slice) THEN slice[i - at] ELSE chunkData[i]]

\* Length stored for a chunk by write: chunkSize, or the end of the slice in
\* the chunk when that is smaller.
WriteChunkLength(chunkOffInChunk, writeLen) ==
  IF chunkOffInChunk + writeLen < chunkSize THEN chunkOffInChunk + writeLen
  ELSE chunkSize

\* Upsert that stores the chunk size in the length column whatever the data.
Upsert_FullLength(c, ino, chunkOffset, data, length) ==
  (<<ino, chunkOffset>> :> [data |-> data, length |-> chunkSize]) @@ c

\* INSERT ... ON CONFLICT(ino, offset) DO UPDATE
Upsert(c, ino, chunkOffset, data, length) ==
  (<<ino, chunkOffset>> :> [data |-> data, length |-> length]) @@ c

\* The while loop of write from `written` on: the store reached, with "ok"
\* when the loop ran to its end and "RangeError" when chunkData.set threw.
RECURSIVE WriteLoop(_, _, _, _, _)
WriteLoop(s, ino, buf, offset, written) ==
  IF written >= Len(buf) THEN Ok(s)
  ELSE LET absOffset == offset + written
           chunkOffset == (absOffset \div chunkSize) * chunkSize
           chunkOffInChunk == absOffset % chunkSize
           writeLen == Min(chunkSize - chunkOffInChunk, Len(buf) - written)
           slice == SubSeq(buf, written + 1, written + writeLen)
           chunkData == loadChunk(s, ino, chunkOffset)
           chunkLength == WriteChunkLength(chunkOffInChunk, writeLen)
       IN IF ~SetFits(chunkData, slice, chunkOffInChunk) THEN Err(s, "RangeError")
          ELSE WriteLoop(
                 Store(s.files,
                       Upsert(s.chunks, ino, chunkOffset,
                              SubSeq(SetAt(chunkData, slice, chunkOffInChunk), 1, chunkLength),
                              chunkLength),
                       s.meta),
                 ino, buf, offset, written + writeLen)

\* Size in the attr of ino as write reads it (0 when the row is missing).
FileSizeOf(s, ino) == IF ino \in DOMAIN s.files THEN s.files[ino].attr.size ELSE 0

\* Space write's preflight asks for: the part of the range past the size.
Additional(fileSize, endOffset) == IF endOffset > fileSize THEN endOffset - fileSize ELSE 0

\* write from the preflight on, for a resolved inode.
WriteResolved(s, ino, buf, offset) ==
  IF getSpaceUsed(s) + Additional(FileSizeOf(s, ino), offset + Len(buf)) > getDeviceSize(s)
  THEN Err(s, "ENOSPC")
  ELSE LET r == WriteLoop(s, ino, buf, offset, 0)
       IN IF r.res # "ok" THEN r
          ELSE Ok(updateFileSizeAndSpaceUsed(r.s, ino))

\* write(path, data, {offset}): auto-create on ENOENT, then preflight, the
\* chunk loop and the size update.
write(s, path, buf, offset) ==
  LET ino == resolvePathToInode(s, path)
  IN IF ino # 0 THEN WriteResolved(s, ino, buf, offset)
     ELSE LET c == create(s, path)
          IN IF c.res # "ok" THEN c
             ELSE WriteResolved(c.s, resolvePathToInode(c.s, path), buf, offset)

\* unlink(path)
unlink(s, path) ==
  LET ino == resolvePathToInode(s, path)
  IN IF ino = 0 \/ ino \notin DOMAIN s.files THEN Err(s, "ENOENT")
     ELSE IF s.files[ino].is_dir = 1 THEN Err(s, "EISDIR")
     ELSE Ok(updateFileSizeAndSpaceUsed(
               Store(DeleteFile(s.files, ino), DeleteChunks(s.chunks, ino), s.meta), ino))

\* The first statements of writeFile: unlink ignoring ENOENT, read the two
\* meta values, create.  Yields the store and the space_used read.
WriteFilePrepare(s, path) ==
  LET u == unlink(s, path)
  IN IF u.res \notin {"ok", "ENOENT"} THEN u
     ELSE create(u.s, path)

\* writeFile(path, buffer | string): one preflight on the buffer length, then
\* a single write at offset 0.
writeFile(s, path, buf) ==
  LET u == unlink(s, path)
      c == WriteFilePrepare(s, path)
  IN IF c.res # "ok" THEN c
     ELSE IF getSpaceUsed(u.s) + Len(buf) > getDeviceSize(u.s) THEN Err(c.s, "ENOSPC")
     ELSE write(c.s, path, buf, 0)

\* The reader loop of writeFile(path, stream) over the pieces still to come.
RECURSIVE StreamLoop(_, _, _, _, _, _, _)
StreamLoop(s, path, pieces, offset, total, spaceUsed, deviceSize) ==
  IF pieces = <<>> THEN Ok(s)
  ELSE LET value == Head(pieces)
       IN IF spaceUsed + total + Len(value) > deviceSize THEN Err(s, "ENOSPC")
          ELSE LET w == write(s, path, value, offset)
               IN IF w.res # "ok" THEN w
                  ELSE StreamLoop(w.s, path, Tail(pieces), offset + Len(value),
                                  total + Len(value), spaceUsed, deviceSize)

\* writeFile(path, stream), the stream given as the pieces it yields; the
\* pulls of one call are taken back to back, no other call between them.
writeFileStream(s, path, pieces) ==
  LET u == unlink(s, path)
      c == WriteFilePrepare(s, path)
  IN IF c.res # "ok" THEN c
     ELSE StreamLoop(c.s, path, pieces, 0, 0, getSpaceUsed(u.s), getDeviceSize(u.s))

\* The pull loop of readFile's stream from currentOffset on: the pieces
\* enqueued, concatenated.
RECURSIVE ReadPieces(_, _, _, _)
ReadPieces(s, ino, fileSize, currentOffset) ==
  IF currentOffset >= fileSize THEN <<>>
  ELSE LET readLength == Min(chunkSize, fileSize - currentOffset)
           chunk == IF <<ino, currentOffset>> \in DOMAIN s.chunks
                    THEN s.chunks[<<ino, currentOffset>>].data
                    ELSE <<>>
       IN chunk \o ReadPieces(s, ino, fileSize, currentOffset + readLength)

\* readFile(path): [res, bytes]
readFile(s, path) ==
  LET ino == resolvePathToInode(s, path)
  IN IF ino = 0 \/ ino \notin DOMAIN s.files THEN [res |-> "ENOENT", bytes |-> <<>>]
     ELSE [res |-> "ok", bytes |-> ReadPieces(s, ino, s.files[ino].attr.size, 0)]

\* fileEnd of read: the largest offset + data.length over the chunks rows of
\* ino, 0 when it has none.
FileEnd(s, ino) ==
  LET ends == {k[2] + Len(s.chunks[k].data) : k \in ChunkKeys(s.chunks, ino)}
  IN IF ends = {} THEN 0 ELSE CHOOSE m \in ends : \A e \in ends : e <= m

\* The byte at absolute position pos as the rows of ino hold it: the byte of
\* the row whose stored data covers pos, 0 where no row does.
ReadByteAt(s, ino, pos) ==
  LET hit == {k \in ChunkKeys(s.chunks, ino) :
                k[2] <= pos /\ pos < k[2] + Len(s.chunks[k].data)}
  IN IF hit = {} THEN 0
     ELSE LET k == CHOOSE x \in hit : TRUE IN s.chunks[k].data[pos - k[2] + 1]

Max(a, b) == IF a > b THEN a ELSE b

\* The rows of ino in the order of the cursor of read (ORDER BY offset ASC).
RECURSIVE RowsByOffset(_, _)
RowsByOffset(c, keys) ==
  IF keys = {} THEN <<>>
  ELSE LET k == CHOOSE x \in keys : \A y \in keys : x[2] <= y[2]
       IN <<[offset |-> k[2], data |-> c[k].data]>> \o RowsByOffset(c, keys \ {k})

\* The copy loop of read over the rows still to come: the part of each row's
\* data that lies in [offset, end) is set into result.
RECURSIVE ReadLoop(_, _, _, _)
ReadLoop(result, rows, offset, end) ==
  IF rows = <<>> THEN result
  ELSE LET chunk == Head(rows)
           chunkStart == chunk.offset
           chunkEnd == chunk.offset + Len(chunk.data)
           readStart == Max(offset, chunkStart)
           readEnd == Min(end, chunkEnd)
           destStart == readStart - offset
           srcStart == readStart - chunkStart
           len == readEnd - readStart
       IN ReadLoop(IF readStart < readEnd
                   THEN SetAt(result, SubSeq(chunk.data, srcStart + 1, srcStart + len), destStart)
                   ELSE result,
                   Tail(rows), offset, end)

\* read without a bound on the requested range: the end is clamped to fileEnd.
ReadEnd_Clamped(s, ino, options) ==
  IF "length" \in DOMAIN options
  THEN Min(options.offset + options.length, Max(options.offset, FileEnd(s, ino)))
  ELSE FileEnd(s, ino)

\* end of read: offset + length, or fileEnd when no length is given.
ReadEnd(s, ino, options) ==
  IF "length" \in DOMAIN options THEN options.offset + options.length
  ELSE FileEnd(s, ino)

\* read(path, options): options is [offset] or [offset, length].  The result
\* is a zeroed buffer of end - offset bytes with the rows copied in; the files
\* row and the size in its attr are not consulted.
read(s, path, options) ==
  LET ino == resolvePathToInode(s, path)
      offset == options.offset
      end == ReadEnd(s, ino, options)
  IN IF ino = 0 THEN [res |-> "ENOENT", bytes |-> <<>>]
     ELSE IF end < offset THEN [res |-> "RangeError", bytes |-> <<>>]
     ELSE [res |-> "ok",
           bytes |-> ReadLoop(Zeros(end - offset),
                              RowsByOffset(s.chunks, ChunkKeys(s.chunks, ino)), offset, end)]

\* listDir(path): '.', '..' and the names of the rows whose parent is the
\* resolved inode; "ENOENT" stands for the throw of the resolution.
listDir(s, path) ==
  LET ino == resolvePathToInode(s, path)
  IN IF ino = 0 THEN [res |-> "ENOENT", names |-> {}]
     ELSE [res |-> "ok",
           names |-> {".", ".."} \cup
                     {s.files[i].name : i \in {j \in DOMAIN s.files : s.files[j].parent = ino}}]

\* stat(path): [res, ino, isFile, isDirectory, size, mode, nlink, kind]; ino
\* is not part of the Stat record and is kept for reference.
stat(s, path) ==
  LET ino == resolvePathToInode(s, path)
  IN IF ino = 0 \/ ino \notin DOMAIN s.files
     THEN [res |-> "ENOENT"]
     ELSE [res |-> "ok", isFile |-> s.files[ino].is_dir = 0,
           isDirectory |-> s.files[ino].is_dir = 1,
           size |-> s.files[ino].attr.size, mode |-> s.files[ino].attr.perm,
           nlink |-> s.files[ino].attr.nlink, kind |-> s.files[ino].attr.kind]

(* ------------------------- directory operations ----------------------- *)

\* rmdir without the child count: the row is deleted whatever refers to it.
rmdir_Unchecked(s, path) ==
  LET ino == resolvePathToInode(s, path)
  IN IF ino = 0 THEN Err(s, "ENOENT")
     ELSE Ok(Store(DeleteFile(s.files, ino), s.chunks, s.meta))

\* rmdir(path): resolve, count the children, delete the row.
rmdir(s, path) ==
  LET ino == resolvePathToInode(s, path)
  IN IF ino = 0 THEN Err(s, "ENOENT")
     ELSE IF ChildCount(s.files, ino) > 0 THEN Err(s, "ENOTEMPTY")
     ELSE Ok(Store(DeleteFile(s.files, ino), s.chunks, s.meta))

\* UPDATE dofs_files SET parent = ?, name = ? WHERE ino = ?
MoveRow(f, ino, newParent, newName) ==
  IF ino \in DOMAIN f
  THEN [f EXCEPT ![ino].parent = newParent, ![ino].name = newName]
  ELSE f

\* RenameDest without the child count: the destination row is deleted whatever
\* it is.
RenameDest_Unchecked(s, newRow) ==
  Ok(Store(DeleteFile(s.files, newRow), DeleteChunks(s.chunks, newRow), s.meta))

\* RenameDest that leaves the destination row in place.
RenameDest_Kept(s, newRow) ==
  IF s.files[newRow].is_dir = 1 /\ ChildCount(s.files, newRow) > 0
  THEN Err(s, "ENOTEMPTY")
  ELSE Ok(s)

\* The destination branch of rename: a directory with children is refused,
\* any other existing destination row is deleted with its chunks.
RenameDest(s, newRow) ==
  IF s.files[newRow].is_dir = 1 /\ ChildCount(s.files, newRow) > 0
  THEN Err(s, "ENOTEMPTY")
  ELSE Ok(Store(DeleteFile(s.files, newRow), DeleteChunks(s.chunks, newRow), s.meta))

\* rename(oldPath, newPath)
rename(s, oldPath, newPath) ==
  IF oldPath = <<>> \/ newPath = <<>> THEN Err(s, "ENOENT")
  ELSE LET oldParent == resolvePathToInode(s, ParentPath(oldPath))
           newParent == resolvePathToInode(s, ParentPath(newPath))
           oldRow == Lookup(s.files, oldParent, LeafName(oldPath))
           newRow == Lookup(s.files, newParent, LeafName(newPath))
       IN IF oldParent = 0 \/ newParent = 0 \/ oldRow = {} THEN Err(s, "ENOENT")
          ELSE LET ino == CHOOSE i \in oldRow : TRUE
                   d == IF newRow = {} THEN Ok(s)
                        ELSE RenameDest(s, CHOOSE i \in newRow : TRUE)
               IN IF d.res # "ok" THEN d
                  ELSE Ok(Store(MoveRow(d.s.files, ino, newParent, LeafName(newPath)),
                                d.s.chunks, d.s.meta))

\* truncate(path, size): delete the chunks from the chunk holding `size` on,
\* then UPDATE the row of that chunk (if it is still there) to the trimmed
\* blob, then recompute the sizes.
truncate(s, path, size) ==
  LET ino == resolvePathToInode(s, path)
      firstExcessChunk == (size \div chunkSize) * chunkSize
      kept == [k \in {x \in DOMAIN s.chunks : ~(x[1] = ino /\ x[2] >= firstExcessChunk)}
                 |-> s.chunks[k]]
      s1 == Store(s.files, kept, s.meta)
      lastLen == size % chunkSize
      chunkData == loadChunk(s1, ino, firstExcessChunk)
      trimmed == IF lastLen # 0 /\ <<ino, firstExcessChunk>> \in DOMAIN kept
                 THEN [kept EXCEPT ![<<ino, firstExcessChunk>>] =
                         [data |-> SubSeq(chunkData, 1, Min(lastLen, Len(chunkData))),
                          length |-> lastLen]]
                 ELSE kept
  IN IF ino = 0 THEN Err(s, "ENOENT")
     ELSE Ok(updateFileSizeAndSpaceUsed(Store(s.files, trimmed, s.meta), ino))

\* setDeviceSize without the comparison with space_used.
setDeviceSize_Unchecked(s, newSize) ==
  Ok(Store(s.files, s.chunks, [s.meta EXCEPT !.device_size = newSize]))

\* setDeviceSize(newSize); the value is stored as newSize.toString() and read
\* back with Number(), which returns the same number.
setDeviceSize(s, newSize) ==
  IF newSize < getSpaceUsed(s) THEN Err(s, "ENOSPC")
  ELSE Ok(Store(s.files, s.chunks, [s.meta EXCEPT !.device_size = newSize]))

\* getDeviceStats()
getDeviceStats(s) ==
  [deviceSize |-> getDeviceSize(s), spaceUsed |-> getSpaceUsed(s),
   spaceAvailable |-> getDeviceSize(s) - getSpaceUsed(s)]

(* -------------------- the WebSocket manager (FUSE client) -------------- *)

\* Number of sendRequest calls made on the manager.
MaxRequests == 2
\* Number of connection faults: losses of the connection, failed or silent
\* connection attempts, errors of sockets that are no longer connecting.
MaxFaults == 5

\* const maxReconnectAttempts = 5
maxReconnectAttempts == 5

Requests == 1 .. MaxRequests

\* The promise chain of a reconnectWebSocket call is named by the request
\* waiting on it, 0 once it has settled.
Chains == 0 .. MaxRequests
\* A replacement socket: before it is made, connecting, closed by the
\* connection timeout, open.
Phases == {"delay", "connecting", "closed", "open"}

\* The manager when createWebSocketManager resolves: the first socket is
\* open, nothing is queued or pending, no request was made.
InitManager ==
  [wsReady |-> TRUE,
   open |-> TRUE,               \* ws.readyState = OPEN
   isReconnecting |-> FALSE,
   reconnectAttempts |-> 0,
   requestQueue |-> <<>>,
   req |-> [r \in Requests |-> [st |-> "new", retryCount |-> 0]],
   attempts |-> [a \in Chains \X Phases |-> 0],   \* replacement sockets, counted
   timers |-> [c \in Chains |-> 0],               \* 50 ms retry timers, counted
   faults |-> 0]

\* pendingRequests: the requests sent and neither answered nor timed out.
pendingRequests(m) == {r \in Requests : m.req[r].st = "sent"}

\* reconnectWebSocket up to its first await, for the promise chain c; the
\* 'Already reconnecting' throw is left to its caller.
StartReconnect(m, c) ==
  [m EXCEPT !.isReconnecting = TRUE, !.wsReady = FALSE,
            !.attempts[<<c, "delay">>] = @ + 1]

\* sendWsRequest(message, retryCount) for request r: queue it, start a
\* reconnection and wait for it, give up, or send and arm the 1 s timer.
sendWsRequest(m, r, retryCount) ==
  IF m.isReconnecting
  THEN [m EXCEPT !.requestQueue = Append(@, r), !.req[r] = [st |-> "queued", retryCount |-> 0]]
  ELSE IF ~m.wsReady \/ ~m.open
  THEN IF retryCount < 2
       THEN StartReconnect([m EXCEPT !.req[r] = [st |-> "waiting", retryCount |-> retryCount]], r)
       ELSE [m EXCEPT !.req[r] = [st |-> "rejected", retryCount |-> 0]]
  ELSE [m EXCEPT !.req[r] = [st |-> "sent", retryCount |-> retryCount]]

\* The sockets and timers of chain c pass to the settled chain 0.
Settle(m, c) ==
  [m EXCEPT !.attempts = [a \in Chains \X Phases |->
                            IF a[1] = c THEN 0
                            ELSE IF a[1] = 0 THEN m.attempts[a] + m.attempts[<<c, a[2]>>]
                            ELSE m.attempts[a]],
            !.timers = [d \in Chains |->
                          IF d = c THEN 0
                          ELSE IF d = 0 THEN m.timers[0] + m.timers[c]
                          ELSE m.timers[d]]]

\* resolve / reject of the promise chain c reaching the caller of
\* reconnectWebSocket in sendWsRequest: once per chain, the request is sent
\* again with retryCount + 1 or rejected.
SettleChain(m, c, how) ==
  IF c = 0 THEN m
  ELSE LET m1 == Settle(m, c)
       IN IF how = "resolve" THEN sendWsRequest(m1, c, m.req[c].retryCount + 1)
          ELSE [m1 EXCEPT !.req[c] = [st |-> "rejected", retryCount |-> 0]]

\* reconnectWebSocket() called from a retry timer of chain c.
reconnectWebSocket(m, c) ==
  IF m.isReconnecting THEN SettleChain(m, c, "reject")
  ELSE StartReconnect(m, c)

\* The failure branch shared by the connection timeout and the 'error'
\* handler of a replacement socket.
AttemptFailed(m, c) ==
  LET m1 == [m EXCEPT !.isReconnecting = FALSE, !.reconnectAttempts = @ + 1]
  IN IF m1.reconnectAttempts >= maxReconnectAttempts THEN SettleChain(m1, c, "reject")
     ELSE [m1 EXCEPT !.timers[c] = @ + 1]

\* The while loop of the 'open' handler over the queue.
RECURSIVE ProcessQueue(_)
ProcessQueue(m) ==
  IF m.requestQueue = <<>> THEN m
  ELSE ProcessQueue(sendWsRequest([m EXCEPT !.requestQueue = Tail(@)], Head(m.requestQueue), 0))

(* ---------------- the WebSocket handler (worker side) ------------------ *)

\* Longest path string of a frame, in tokens: '/n/i/a' has six.
MaxPathLen == 6

\* config.dos: one namespace is configured.
dos == {"n"}
\* What `name in dos` also finds on a plain object: inherited properties,
\* none of which has a getInstances.
Inherited == {"constructor"}
\* The slug getInstances() can return.
Slugs == {"i"}

\* A path string is a sequence of tokens, '/' or a whole name; the frames
\* carry the empty string and absolute paths.
Tokens == {"/", "n", "i", "a", "constructor"}
PathStrings ==
  {q \in SeqsUpTo(Tokens, MaxPathLen) :
     /\ q # <<>> => q[1] = "/"
     /\ \A k \in 1 .. Len(q) - 1 : q[k] = "/" \/ q[k + 1] = "/"}

\* message.path as JSON delivers it: absent, a number, or a string.
PathValues ==
  {[type |-> "undefined", chars |-> <<>>], [type |-> "number", chars |-> <<>>]}
    \cup {[type |-> "string", chars |-> q] : q \in PathStrings}

\* message.content: absent, or one of the strings '', 'AQ==' and '!'.
Contents == {"undefined", "", "AQ==", "!"}
Encodings == {"base64", "utf8"}
Ids == {"r1"}

\* The 'write' frames a client can send.
Messages ==
  [id : Ids, operation : {"write"}, path : PathValues, content : Contents,
   encoding : Encodings]

\* What the handler's awaits meet: getInstances() returns a list of slugs or
\* throws, getFs() returns the instance's filesystem or throws.
Environments ==
  {e \in [getInstances : {"ok", "throws"}, instances : SUBSET Slugs,
           getFs : {"ok", "throws"}] :
     e.getInstances = "throws" => e.instances = {}}

\* path.split('/').filter((p) => p.length > 0)
RECURSIVE SplitPath(_)
SplitPath(chars) ==
  IF chars = <<>> THEN <<>>
  ELSE IF Head(chars) = "/" THEN SplitPath(Tail(chars))
  ELSE <<Head(chars)>> \o SplitPath(Tail(chars))

\* atob(content) followed by the charCodeAt loop; 'throws' on a string that
\* is not base64.
atob(content) ==
  CASE content = "" -> [res |-> "ok", bytes |-> <<>>]
    [] content = "AQ==" -> [res |-> "ok", bytes |-> <<1>>]
    [] OTHER -> [res |-> "throws", bytes |-> <<>>]

\* new TextEncoder().encode(content)
encode(content) ==
  CASE content = "" -> <<>>
    [] content = "AQ==" -> <<65, 81, 61, 61>>
    [] OTHER -> <<33>>

\* No id on a response, no call of the engine.
NoId == "undefined"
NoCall == [called |-> FALSE]

\* A response frame the handler sends with success: false.
Failure(id, error) == [id |-> id, success |-> FALSE, error |-> error, bytesWritten |-> 0]

\* What onMessage leaves: the instance's store, the response sent, and the
\* call of fs.writeFile made, if any.
Handled(s, reply, call) == [s |-> s, response |-> reply, call |-> call]

\* onMessage for a frame with operation 'write' in the environment env.
onMessage(s, message, env) ==
  LET id == message.id
      path == message.path
      content == message.content
      pathParts == SplitPath(path.chars)
      namespace == pathParts[1]
      instanceSlug == pathParts[2]
      rest == SubSeq(pathParts, 3, Len(pathParts))
      decoded == IF message.encoding = "base64" THEN atob(content)
                 ELSE [res |-> "ok", bytes |-> encode(content)]
      w == writeFile(s, rest, decoded.bytes)
  IN IF path.type = "undefined" \/ (path.type = "string" /\ path.chars = <<>>)
        \/ content = "undefined"
     THEN Handled(s, Failure(id, "Missing required parameters"), NoCall)
     ELSE IF path.type # "string"
     THEN \* path.split is not a function: the outer catch answers
          Handled(s, Failure(NoId, "Invalid JSON message"), NoCall)
     ELSE IF Len(pathParts) < 3
     THEN Handled(s, Failure(id, "EACCES: Cannot write files to root or namespace directories"), NoCall)
     ELSE IF namespace \notin dos \cup Inherited
     THEN Handled(s, Failure(id, "ENOENT: Namespace not found"), NoCall)
     ELSE IF namespace \in Inherited \/ env.getInstances = "throws"
     THEN Handled(s, Failure(id, "EIO: Error validating instance"), NoCall)
     ELSE IF instanceSlug \notin env.instances
     THEN Handled(s, Failure(id, "ENOENT: Instance not found"), NoCall)
     ELSE IF rest = <<>>
     THEN Handled(s, Failure(id, "EACCES: Cannot write files to instance directory - must specify a filename"), NoCall)
     ELSE IF decoded.res # "ok" \/ env.getFs # "ok"
     THEN Handled(s, Failure(id, "EIO: Filesystem write error"), NoCall)
     ELSE LET call == [called |-> TRUE, namespace |-> namespace, instance |-> instanceSlug,
                       path |-> rest, data |-> decoded.bytes]
          IN IF w.res # "ok"
             THEN Handled(w.s, Failure(id, "EIO: Filesystem write error"), call)
             ELSE Handled(w.s, [id |-> id, success |-> TRUE, error |-> "",
                                bytesWritten |-> Len(decoded.bytes)], call)

(* --------------------------- the state machine ------------------------ *)

St == Store(files, chunks, meta)

\* No streaming writeFile is in progress.
Idle == [pc |-> "idle"]

\* A streaming writeFile waiting at `await reader.read()`: its locals, and
\* the pieces its stream has yet to yield.
Suspended(path, pieces, offset, total, spaceUsed, deviceSize) ==
  [pc |-> "read", path |-> path, pieces |-> pieces, offset |-> offset,
   total |-> total, spaceUsed |-> spaceUsed, deviceSize |-> deviceSize]

\* The state after construction: ensureSchema has run on an empty database.
Init ==
  /\ files = ensureSchema.files
  /\ chunks = ensureSchema.chunks
  /\ meta = ensureSchema.meta
  /\ calls = 0
  /\ upload = Idle
  /\ mgr = InitManager
  /\ response = Failure(NoId, "")

\* One completed call, returned or thrown: the tables become those the call
\* leaves.
Step(op, r) ==
  /\ calls < MaxCalls
  /\ files' = r.s.files
  /\ chunks' = r.s.chunks
  /\ meta' = r.s.meta
  /\ calls' = calls + 1
  /\ UNCHANGED <<upload, mgr, response>>

SetDeviceSize == \E n \in 0 .. MaxDevice : Step("setDeviceSize", setDeviceSize(St, n))

Create == \E p \in Paths : Step("create", create(St, p))

Mkdir == \E p \in Paths : Step("mkdir", mkdir(St, p))

Symlink == \E p \in Paths : Step("symlink", symlink(St, Target, p))

Write == \E p \in Paths, d \in Data, o \in Offsets : Step("write", write(St, p, d, o))

WriteFile == \E p \in Paths, d \in Data : Step("writeFile", writeFile(St, p, d))

WriteFileStream ==
  \E p \in Paths, q \in Streams : Step("writeFileStream", writeFileStream(St, p, q))

Truncate == \E p \in Paths, n \in Offsets : Step("truncate", truncate(St, p, n))

Unlink == \E p \in Paths : Step("unlink", unlink(St, p))

Rmdir == \E p \in Paths : Step("rmdir", rmdir(St, p))

Rename == \E p \in Paths, q \in Paths : Step("rename", rename(St, p, q))

Next ==
  \/ SetDeviceSize
  \/ Create
  \/ Mkdir
  \/ Symlink
  \/ Write
  \/ WriteFile
  \/ WriteFileStream
  \/ Truncate
  \/ Unlink
  \/ Rmdir
  \/ Rename

Spec == Init /\ [][Next]_vars

(* A streaming writeFile taken one await at a time.  The method is async    *)
(* and its loop awaits reader.read() with nothing held: between two pulls   *)
(* the object runs whatever other call arrives.                             *)

\* writeFile(path, stream) up to its first `await reader.read()`.
BeginUpload ==
  \E p \in Paths, q \in Streams :
    LET u == unlink(St, p)
        c == WriteFilePrepare(St, p)
    IN /\ upload = Idle
       /\ calls < MaxCalls
       /\ files' = c.s.files
       /\ chunks' = c.s.chunks
       /\ meta' = c.s.meta
       /\ calls' = calls + 1
       /\ upload' = IF c.res # "ok" THEN Idle
                    ELSE Suspended(p, q, 0, 0, getSpaceUsed(u.s), getDeviceSize(u.s))
       /\ UNCHANGED <<mgr, response>>

\* reader.read() resolves: done, or one piece, checked against the space
\* read at the start of the call and written at the running offset.
Pull ==
  /\ upload # Idle
  /\ IF upload.pieces = <<>> THEN UNCHANGED <<files, chunks, meta>> /\ upload' = Idle
     ELSE LET value == Head(upload.pieces)
              w == write(St, upload.path, value, upload.offset)
          IN IF upload.spaceUsed + upload.total + Len(value) > upload.deviceSize
             THEN UNCHANGED <<files, chunks, meta>> /\ upload' = Idle
             ELSE /\ files' = w.s.files
                  /\ chunks' = w.s.chunks
                  /\ meta' = w.s.meta
                  /\ upload' = IF w.res # "ok" THEN Idle
                               ELSE Suspended(upload.path, Tail(upload.pieces),
                                              upload.offset + Len(value),
                                              upload.total + Len(value),
                                              upload.spaceUsed, upload.deviceSize)
  /\ UNCHANGED <<calls, mgr, response>>

\* reader.read() rejects: the stream failed, the call throws where it stands.
StreamFails ==
  /\ upload # Idle
  /\ upload' = Idle
  /\ UNCHANGED <<files, chunks, meta, calls, mgr, response>>

NextUpload ==
  \/ Next
  \/ BeginUpload
  \/ Pull
  \/ StreamFails

SpecUpload == Init /\ [][NextUpload]_vars

(* The manager taken one event at a time: calls of sendRequest, frames,   *)
(* timers and socket events, in any order.                                *)

\* A caller invokes sendRequest(message).
SendRequest ==
  \E r \in Requests :
    /\ mgr.req[r].st = "new"
    /\ mgr' = sendWsRequest(mgr, r, 0)
    /\ UNCHANGED <<files, chunks, meta, calls, upload, response>>

\* The server answers a pending request: success or failure frame.
Response ==
  \E r \in Requests, success \in BOOLEAN :
    /\ mgr.req[r].st = "sent"
    /\ mgr.open
    /\ mgr' = [mgr EXCEPT !.req[r] = [st |-> IF success THEN "resolved" ELSE "rejected",
                                      retryCount |-> 0]]
    /\ UNCHANGED <<files, chunks, meta, calls, upload, response>>

\* The 1 s timer of a pending request fires.
RequestTimeout ==
  \E r \in Requests :
    /\ mgr.req[r].st = "sent"
    /\ mgr' = IF mgr.req[r].retryCount < 1
              THEN sendWsRequest([mgr EXCEPT !.wsReady = FALSE], r, mgr.req[r].retryCount + 1)
              ELSE [mgr EXCEPT !.req[r] = [st |-> "rejected", retryCount |-> 0]]
    /\ UNCHANGED <<files, chunks, meta, calls, upload, response>>

\* The connection closes: the 'close' handler of setupWebSocket.
ConnectionLost ==
  /\ mgr.open
  /\ mgr.faults < MaxFaults
  /\ mgr' = [mgr EXCEPT !.open = FALSE, !.wsReady = FALSE, !.faults = @ + 1]
  /\ UNCHANGED <<files, chunks, meta, calls, upload, response>>

\* The delay of reconnectWebSocket elapses: the replacement socket is made
\* and its 2 s connection timeout armed.
DelayElapsed ==
  \E c \in Chains :
    /\ mgr.attempts[<<c, "delay">>] > 0
    /\ mgr' = [mgr EXCEPT !.attempts[<<c, "delay">>] = @ - 1,
                          !.attempts[<<c, "connecting">>] = @ + 1]
    /\ UNCHANGED <<files, chunks, meta, calls, upload, response>>

\* 'open' of a connecting replacement socket: it becomes the connection, the
\* sockets opened before it are gone.
SocketOpen ==
  \E c \in Chains :
    /\ mgr.attempts[<<c, "connecting">>] > 0
    /\ LET m1 == [mgr EXCEPT !.attempts = [a \in Chains \X Phases |->
                                 IF a[2] = "open" THEN (IF a[1] = c THEN 1 ELSE 0)
                                 ELSE IF a = <<c, "connecting">> THEN mgr.attempts[a] - 1
                                 ELSE mgr.attempts[a]],
                             !.wsReady = TRUE, !.open = TRUE,
                             !.isReconnecting = FALSE, !.reconnectAttempts = 0]
       IN mgr' = SettleChain(ProcessQueue(m1), c, "resolve")
    /\ UNCHANGED <<files, chunks, meta, calls, upload, response>>

\* The 2 s connection timeout of a connecting replacement socket fires:
\* newWs.close(), then the failure branch.  Its handlers stay on the socket.
ConnectionTimeout ==
  \E c \in Chains :
    /\ mgr.attempts[<<c, "connecting">>] > 0
    /\ mgr.faults < MaxFaults
    /\ mgr' = AttemptFailed([mgr EXCEPT !.attempts[<<c, "connecting">>] = @ - 1,
                                        !.attempts[<<c, "closed">>] = @ + 1,
                                        !.faults = @ + 1], c)
    /\ UNCHANGED <<files, chunks, meta, calls, upload, response>>

\* 'error' of a replacement socket, whose handler is never removed: while
\* connecting, after the timeout closed it, or after it had opened.
SocketError ==
  \E c \in Chains, p \in {"connecting", "closed", "open"} :
    /\ mgr.attempts[<<c, p>>] > 0
    /\ mgr.faults < MaxFaults
    /\ mgr' = AttemptFailed([mgr EXCEPT !.attempts[<<c, p>>] = @ - 1, !.faults = @ + 1,
                                        !.wsReady = IF p = "open" THEN FALSE ELSE @,
                                        !.open = IF p = "open" THEN FALSE ELSE @], c)
    /\ UNCHANGED <<files, chunks, meta, calls, upload, response>>

\* A 50 ms retry timer fires: reconnectWebSocket() is called again.
RetryTimer ==
  \E c \in Chains :
    /\ mgr.timers[c] > 0
    /\ mgr' = reconnectWebSocket([mgr EXCEPT !.timers[c] = @ - 1], c)
    /\ UNCHANGED <<files, chunks, meta, calls, upload, response>>

NextWs ==
  \/ SendRequest
  \/ Response
  \/ RequestTimeout
  \/ ConnectionLost
  \/ DelayElapsed
  \/ SocketOpen
  \/ ConnectionTimeout
  \/ SocketError
  \/ RetryTimer

\* Timers fire, a connecting socket opens or times out, and a pending request
\* is answered or times out; losses and errors need not happen.
SpecWs ==
  /\ Init /\ [][NextWs]_vars
  /\ WF_vars(DelayElapsed)
  /\ WF_vars(RetryTimer)
  /\ WF_vars(SocketOpen \/ ConnectionTimeout)
  /\ WF_vars(Response \/ RequestTimeout)

(* The handler taken one frame at a time, on the store of the instance    *)
(* its frames name.                                                       *)

\* A 'write' frame arrives and is handled to its response.
OnMessage ==
  \E message \in Messages, env \in Environments :
    LET h == onMessage(St, message, env)
    IN /\ calls < MaxCalls
       /\ files' = h.s.files
       /\ chunks' = h.s.chunks
       /\ meta' = h.s.meta
       /\ calls' = calls + 1
       /\ response' = h.response
       /\ UNCHANGED <<upload, mgr>>

NextHandler ==
  \/ OnMessage
  \/ Mkdir

SpecHandler == Init /\ [][NextHandler]_vars

(* ------------------------------ properties ---------------------------- *)
(* Each property speaks about one call made in a reachable state: the     *)
(* operators above give the store the call leaves and how it ends, for    *)
(* every input of the bounded input sets.                                 *)

\* Sum of the lengths of all chunks rows / of the rows of one inode.
ChunkSum(s) == SumLength(s.chunks, DOMAIN s.chunks)
InoChunkSum(s, ino) == SumLength(s.chunks, ChunkKeys(s.chunks, ino))

\* P2 and P1 of the specification, about a store value.
SpaceUsedIsChunkSum(s) == s.meta.space_used = ChunkSum(s)
SizeIsChunkSum(s) ==
  \A i \in DOMAIN s.files :
    s.files[i].attr.kind = "File" => s.files[i].attr.size = InoChunkSum(s, i)

Exists(s, path) == stat(s, path).res = "ok"
IsDirectory(s, path) == Exists(s, path) /\ stat(s, path).isDirectory
IsFile(s, path) == Exists(s, path) /\ stat(s, path).kind = "File"
HasParentDirectory(s, path) == path # <<>> /\ IsDirectory(s, ParentPath(path))

\* Concatenation of the pieces of a stream.
RECURSIVE Concat(_)
Concat(pieces) == IF pieces = <<>> THEN <<>> ELSE Head(pieces) \o Concat(Tail(pieces))

\* C1: space_used equals the sum of all chunk lengths after a rename that
\* replaces an existing destination (an entry other than the source), made in
\* a state where the two agree.
C1_SpaceUsedAfterRename ==
  \A old \in Paths, new \in Paths :
    LET r == rename(St, old, new)
    IN (/\ SpaceUsedIsChunkSum(St)
        /\ Exists(St, new)
        /\ resolvePathToInode(St, old) # resolvePathToInode(St, new)
        /\ r.res = "ok")
         => SpaceUsedIsChunkSum(r.s)

\* C2: after a create made in any reachable state, the size in the attr of
\* every regular file equals the sum of the lengths of its chunks rows.
C2_SizeAfterCreate ==
  \A path \in Paths :
    LET r == create(St, path)
    IN (SizeIsChunkSum(St) /\ r.res = "ok") => SizeIsChunkSum(r.s)

\* C3: a successful write to a regular file or a new path, made on a device
\* that is not over-full and with sizes and space_used in agreement with the
\* chunks, leaves the total of the stored chunk lengths at most device_size.
C3_WriteWithinDevice ==
  \A path \in Paths, d \in Data, o \in Offsets :
    LET r == write(St, path, d, o)
    IN (/\ SpaceUsedIsChunkSum(St)
        /\ SizeIsChunkSum(St)
        /\ ChunkSum(St) <= getDeviceSize(St)
        /\ IsFile(St, path) \/ ~Exists(St, path)
        /\ r.res = "ok")
         => ChunkSum(r.s) <= getDeviceSize(r.s)

\* C4: after a successful writeFile(p, data) with p under an existing
\* directory, readFile(p) delivers exactly data and stat(p).size is its length.
C4_WriteFileRoundTrip ==
  \A path \in Paths, d \in Data :
    LET r == writeFile(St, path, d)
    IN (HasParentDirectory(St, path) /\ r.res = "ok")
         => /\ readFile(r.s, path) = [res |-> "ok", bytes |-> d]
            /\ stat(r.s, path).size = Len(d)

\* C5: writeFile(p, stream) with p a new name under an existing directory and
\* pieces whose total fits in the free space succeeds, and the file then holds
\* the concatenation of the pieces, its size their total length.
C5_StreamAnyPieceSizes ==
  \A path \in Paths, q \in Streams :
    LET r == writeFileStream(St, path, q)
    IN (/\ HasParentDirectory(St, path)
        /\ ~Exists(St, path)
        /\ SpaceUsedIsChunkSum(St)
        /\ ChunkSum(St) + Len(Concat(q)) <= getDeviceSize(St))
         => /\ r.res = "ok"
            /\ readFile(r.s, path) = [res |-> "ok", bytes |-> Concat(q)]
            /\ stat(r.s, path).size = Len(Concat(q))

\* C6: a writeFile(p, buffer) rejected with ENOSPC leaves the store as it was
\* when p did not exist: p still does not exist and space_used is unchanged.
C6_WriteFileEnospcUnchanged ==
  \A path \in Paths, d \in Data :
    LET r == writeFile(St, path, d)
    IN (r.res = "ENOSPC" /\ ~Exists(St, path))
         => ~Exists(r.s, path) /\ getSpaceUsed(r.s) = getSpaceUsed(St)

\* C7: a write that fails leaves the files, chunks and meta tables as they
\* were before the call.
C7_FailedWriteUnchanged ==
  \A path \in Paths, d \in Data, o \in Offsets :
    LET r == write(St, path, d, o)
    IN r.res # "ok" => r.s = St

\* C8: after a successful rename(a, b) of two distinct paths, a no longer
\* resolves and b resolves to the inode a named, with the same stat and content.
C8_RenameAtomic ==
  \A a \in Paths, b \in Paths :
    LET r == rename(St, a, b)
    IN (a # b /\ r.res = "ok")
         => /\ ~Exists(r.s, a)
            /\ resolvePathToInode(r.s, b) = resolvePathToInode(St, a)
            /\ stat(r.s, b) = stat(St, a)
            /\ readFile(r.s, b) = readFile(St, a)

\* C9: after a successful rename(old, new) of a regular file onto an existing
\* regular file other than old, no files row and no chunks row of the replaced
\* inode remains, and reading new returns the bytes old held.
C9_RenameReplacesFile ==
  \A old \in Paths, new \in Paths :
    LET r == rename(St, old, new)
        replaced == resolvePathToInode(St, new)
    IN (/\ IsFile(St, new)
        /\ IsFile(St, old)
        /\ resolvePathToInode(St, old) # replaced
        /\ r.res = "ok")
         => /\ replaced \notin DOMAIN r.s.files
            /\ ChunkKeys(r.s.chunks, replaced) = {}
            /\ readFile(r.s, new) = readFile(St, old)

\* new names a directory row that has at least one child.
NonEmptyDirectory(s, path) ==
  IsDirectory(s, path) /\ ChildCount(s.files, resolvePathToInode(s, path)) > 0

C11_RootNeverRemoved ==
  /\ 1 \in DOMAIN files
  /\ files[1].is_dir = 1
  /\ files[1].attr.kind = "Directory"
  /\ files[1].parent = 0

\* C12: the inode given to a new file, directory or symlink is not the inode
\* of an entry that an unlink or rmdir removed just before.
C12_InodeNeverReused ==
  \A gone \in Paths, path \in Paths :
    LET ino == resolvePathToInode(St, gone)
    IN \A u \in {unlink(St, gone), rmdir(St, gone)} :
         \A c \in {create(u.s, path), mkdir(u.s, path), symlink(u.s, Target, path)} :
           (u.res = "ok" /\ c.res = "ok") => resolvePathToInode(c.s, path) # ino

\* The stored content of path is contiguous from 0: the size in its attr is
\* the end of its last chunk.
Dense(s, path) == stat(s, path).size = FileEnd(s, resolvePathToInode(s, path))

\* C13: after a successful write(path, data, {offset}) to a regular file the
\* range [offset, offset + len(data)) reads back as data, every byte stored
\* before outside that range reads back as it was, and the size is not smaller.
C13_WriteOverlays ==
  \A path \in Paths, d \in Data, o \in Offsets :
    LET r == write(St, path, d, o)
        ino == resolvePathToInode(St, path)
    IN (IsFile(St, path) /\ r.res = "ok")
         => /\ read(r.s, path, [offset |-> o, length |-> Len(d)]).bytes = d
            /\ \A pos \in 0 .. (FileEnd(St, ino) - 1) :
                 (pos < o \/ pos >= o + Len(d))
                   => ReadByteAt(r.s, ino, pos) = ReadByteAt(St, ino, pos)
            /\ stat(r.s, path).size >= stat(St, path).size

\* C14: a write at end-of-file to a regular file with contiguous content whose
\* size is not a multiple of chunkSize, with room on the device, succeeds; the
\* size grows by len(data) and the content is the old content followed by data.
C14_AppendToPartialChunk ==
  \A path \in Paths, d \in Data :
    LET size == stat(St, path).size
        r == write(St, path, d, size)
    IN (/\ IsFile(St, path)
        /\ Dense(St, path)
        /\ size % chunkSize # 0
        /\ getSpaceUsed(St) + Len(d) <= getDeviceSize(St))
         => /\ r.res = "ok"
            /\ stat(r.s, path).size = size + Len(d)
            /\ read(r.s, path, [offset |-> 0]).bytes
                 = read(St, path, [offset |-> 0]).bytes \o d

\* C15: truncate(path, n) of a regular file with contiguous content of size
\* s >= n leaves size n and the first n bytes as they were, and when n is not
\* a multiple of chunkSize the chunk holding byte n - 1 is kept with length
\* n mod chunkSize.
C15_TruncateShrinks ==
  \A path \in Paths, n \in Offsets :
    LET r == truncate(St, path, n)
        ino == resolvePathToInode(St, path)
        last == <<ino, (n \div chunkSize) * chunkSize>>
    IN (IsFile(St, path) /\ Dense(St, path) /\ n <= stat(St, path).size)
         => /\ r.res = "ok"
            /\ stat(r.s, path).size = n
            /\ read(r.s, path, [offset |-> 0, length |-> n])
                 = read(St, path, [offset |-> 0, length |-> n])
            /\ n % chunkSize # 0
                 => last \in DOMAIN r.s.chunks /\ r.s.chunks[last].length = n % chunkSize

\* C16: truncate(path, n) of a regular file of size s < n leaves stat(path).size
\* at n, and a read of [s, n) returns zeros.
C16_TruncateExtends ==
  \A path \in Paths, n \in Offsets :
    LET r == truncate(St, path, n)
        size == stat(St, path).size
    IN (IsFile(St, path) /\ n > size)
         => /\ r.res = "ok"
            /\ stat(r.s, path).size = n
            /\ read(r.s, path, [offset |-> size, length |-> n - size]).bytes = Zeros(n - size)

\* Inodes of the rows a path from the root leads to, found from `found` on.
RECURSIVE ReachableFrom(_, _)
ReachableFrom(f, found) ==
  LET more == {i \in DOMAIN f : f[i].parent \in found} \ found
  IN IF more = {} THEN found ELSE ReachableFrom(f, found \cup more)

\* The regular files that some path resolves to.
ReachableFiles(s) ==
  {i \in ReachableFrom(s.files, {1}) \cap DOMAIN s.files : s.files[i].attr.kind = "File"}

RECURSIVE SumSizes(_, _)
SumSizes(f, inos) ==
  IF inos = {} THEN 0
  ELSE LET i == CHOOSE x \in inos : TRUE
       IN f[i].attr.size + SumSizes(f, inos \ {i})

\* L4 of the specification, about a store value.
Accounting(s) == getDeviceStats(s).spaceUsed = SumSizes(s.files, ReachableFiles(s))

\* C17: in every reachable state getDeviceStats().spaceUsed is the sum of the
\* sizes of the regular files that a path from the root resolves to.
C17_SpaceUsedIsSumOfFileSizes == Accounting(St)

\* What C18 says of unlink(path) made in store s.
UnlinkAsClaimed(s, path) ==
  LET r == unlink(s, path)
      ino == resolvePathToInode(s, path)
  IN /\ (Exists(s, path) /\ ~IsDirectory(s, path))
          => /\ r.res = "ok"
             /\ ino \notin DOMAIN r.s.files
             /\ ChunkKeys(r.s.chunks, ino) = {}
             /\ getSpaceUsed(r.s) = getSpaceUsed(s) - InoChunkSum(s, ino)
     /\ IsDirectory(s, path) => (r.res = "EISDIR" /\ r.s = s)
     /\ ~Exists(s, path) => (r.res = "ENOENT" /\ r.s = s)

\* C18: unlink of a regular file or symlink removes its row and its chunks
\* and lowers space_used by the bytes its chunks held, unlink of a directory
\* fails with EISDIR and unlink of a missing path with ENOENT, both without
\* a change; checked for the unlink that follows any rename.
C18_Unlink ==
  \A old \in Paths, new \in Paths, path \in Paths :
    UnlinkAsClaimed(rename(St, old, new).s, path)

\* The directory rows of s that the call with outcome r deleted.
DeletedDirectories(s, r) ==
  {i \in DOMAIN s.files : s.files[i].is_dir = 1 /\ i \notin DOMAIN r.s.files}

\* C19: rmdir of a directory that has a child fails with ENOTEMPTY and changes
\* nothing; whatever directory row an rmdir, rename, unlink or writeFile
\* deletes had no row naming it as parent; and after a successful rmdir(path)
\* the name is not in listDir of the parent.
C19_RmdirOnlyEmpty ==
  \A path \in Paths :
    LET r == rmdir(St, path)
    IN /\ NonEmptyDirectory(St, path) => (r.res = "ENOTEMPTY" /\ r.s = St)
       /\ (r.res = "ok" /\ path # <<>>)
            => LeafName(path) \notin listDir(r.s, ParentPath(path)).names
       /\ \A x \in {r, unlink(St, path), writeFile(St, path, <<>>)}
                    \cup {rename(St, path, new) : new \in Paths} :
            \A i \in DeletedDirectories(St, x) : ChildCount(files, i) = 0

\* C19 witness: a directory with a child, whose rmdir ends in ENOTEMPTY, and
\* an empty directory below the root, whose rmdir succeeds.
C19_Witness ==
  /\ \E path \in Paths : NonEmptyDirectory(St, path) /\ rmdir(St, path).res = "ENOTEMPTY"
  /\ \E path \in Paths :
       /\ path # <<>>
       /\ IsDirectory(St, path)
       /\ rmdir(St, path).res = "ok"
       /\ DeletedDirectories(St, rmdir(St, path)) # {}

\* C20: setDeviceSize(n) fails with ENOSPC exactly when n < space_used and
\* then changes nothing; otherwise it succeeds, device_size is n, the files
\* and chunks tables and space_used are as before, and getDeviceStats()
\* reports spaceAvailable = n - spaceUsed, which is not negative.
C20_SetDeviceSize ==
  \A n \in 0 .. MaxDevice :
    LET r == setDeviceSize(St, n)
        stats == getDeviceStats(r.s)
    IN /\ (r.res = "ENOSPC") <=> (n < getSpaceUsed(St))
       /\ r.res = "ENOSPC" => r.s = St
       /\ r.res # "ENOSPC"
            => /\ r.res = "ok"
               /\ getDeviceSize(r.s) = n
               /\ r.s.files = files
               /\ r.s.chunks = chunks
               /\ getSpaceUsed(r.s) = getSpaceUsed(St)
               /\ stats.deviceSize = n
               /\ stats.spaceAvailable = n - stats.spaceUsed
               /\ stats.spaceAvailable >= 0

\* C20 witness: a state with bytes in use where one size is refused with
\* ENOSPC and another is accepted and changes device_size.
C20_Witness ==
  /\ getSpaceUsed(St) > 0
  /\ \E n \in 0 .. MaxDevice : setDeviceSize(St, n).res = "ENOSPC"
  /\ \E n \in 0 .. MaxDevice :
       /\ setDeviceSize(St, n).res = "ok"
       /\ getDeviceSize(setDeviceSize(St, n).s) # getDeviceSize(St)

\* P3 of the specification, about a files table: no two rows with the same
\* parent and name.
UniqueNames(f) ==
  Cardinality({<<f[i].parent, f[i].name>> : i \in DOMAIN f}) = Cardinality(DOMAIN f)

\* C21: in every reachable state (whatever calls led to it), and after one
\* more create or rename made there, no two files rows share their
\* (parent, name) pair.
C21_UniqueNames ==
  /\ UniqueNames(files)
  /\ \A path \in Paths :
       /\ UniqueNames(create(St, path).s.files)
       /\ \A new \in Paths : UniqueNames(rename(St, path, new).s.files)

\* C21 witness: a name is taken, create on it is refused with EEXIST, and a
\* rename of another entry onto it succeeds.
C21_Witness ==
  \E old \in Paths, new \in Paths :
    /\ old # new
    /\ Exists(St, old)
    /\ Exists(St, new)
    /\ create(St, new).res = "EEXIST"
    /\ rename(St, old, new).res = "ok"
    /\ Exists(rename(St, old, new).s, new)

\* P5 of the specification, about a chunks table: offsets are multiples of
\* chunkSize, lengths are at most chunkSize and count the bytes of the data.
ChunksAligned(c) ==
  \A k \in DOMAIN c :
    /\ k[2] % chunkSize = 0
    /\ c[k].length <= chunkSize
    /\ c[k].length = Len(c[k].data)

\* C22: in every reachable state, whatever writes, writeFiles and truncates
\* (completed or thrown) with the offsets, data and sizes of the input sets
\* led to it, every chunks row has an offset that is a multiple of chunkSize
\* and a length of at most chunkSize that is the byte count of its data.
C22_ChunksAligned == ChunksAligned(chunks)

\* C22 witness: a file holds a partial chunk and a full chunk, left by writes
\* of which one started inside a chunk.
C22_Witness ==
  \E path \in Paths :
    LET keys == ChunkKeys(chunks, resolvePathToInode(St, path))
    IN /\ IsFile(St, path)
       /\ \E k \in keys : chunks[k].length < chunkSize
       /\ \E k \in keys : chunks[k].length = chunkSize /\ chunks[k].data[1] = 0

\* Every chunks row is aligned to the chunk size cs and no longer than it.
ChunksAlignedTo(c, cs) ==
  \A k \in DOMAIN c : k[2] % cs = 0 /\ c[k].length <= cs

\* C23: an engine constructed over the stored tables with a chunk size other
\* than the one the chunks were written with is either refused or operates
\* on chunks that are all aligned to its chunk size.
C23_ChunkSizeImmutable ==
  \A cs \in (1 .. 2 * chunkSize) \ {chunkSize} :
    LET fs == constructor(St, [chunkSize |-> cs])
    IN (chunks # NoChunks /\ fs.res = "ok") => ChunksAlignedTo(fs.s.chunks, fs.chunkSize)

\* The first k components of path.
Prefix(path, k) == SubSeq(path, 1, k)

\* Some intermediate directory of path is missing, the others are directories.
MissingIntermediate(s, path) ==
  /\ IsDirectory(s, <<>>)
  /\ \A k \in 1 .. (Len(path) - 1) :
       ~Exists(s, Prefix(path, k)) \/ IsDirectory(s, Prefix(path, k))
  /\ \E k \in 1 .. (Len(path) - 1) : ~Exists(s, Prefix(path, k))

\* C24: mkdir(path, {recursive: true}) with a missing intermediate directory
\* succeeds and leaves every prefix of path a directory; mkdir(path) without
\* recursive fails there with ENOENT and changes nothing.
C24_MkdirRecursive ==
  \A path \in Paths :
    LET rec == mkdirOptions(St, path, [recursive |-> TRUE])
        plain == mkdirOptions(St, path, [recursive |-> FALSE])
    IN MissingIntermediate(St, path)
         => /\ rec.res = "ok"
            /\ \A k \in 1 .. Len(path) : IsDirectory(rec.s, Prefix(path, k))
            /\ plain.res = "ENOENT"
            /\ plain.s = St

\* C25: create, mkdir, symlink and write of a path whose parent component is
\* an existing regular file or symlink fail with ENOTDIR, and no files row has
\* a row that is not a directory as its parent.
C25_NotADirectory ==
  /\ \A i \in DOMAIN files :
       files[i].parent \in DOMAIN files => files[files[i].parent].is_dir = 1
  /\ \A path \in Paths :
       (/\ path # <<>>
        /\ Exists(St, ParentPath(path))
        /\ ~IsDirectory(St, ParentPath(path)))
         => \A r \in {create(St, path), mkdir(St, path), symlink(St, Target, path),
                       write(St, path, <<>>, 0)} :
              r.res = "ENOTDIR"

\* The call ended in error e and left the store s as it was.
Refused(r, s, e) == r.res = e /\ r.s = s

\* C26: create, mkdir and symlink of the empty path or of a path that names
\* an existing entry fail with EEXIST and leave the three tables as they
\* were; rename with an empty old or new path fails with ENOENT.
C26_ExistingName ==
  \A path \in Paths :
    /\ (path = <<>> \/ Exists(St, path))
         => /\ Refused(create(St, path), St, "EEXIST")
            /\ Refused(mkdir(St, path), St, "EEXIST")
            /\ Refused(symlink(St, Target, path), St, "EEXIST")
    /\ Refused(rename(St, <<>>, path), St, "ENOENT")
    /\ Refused(rename(St, path, <<>>), St, "ENOENT")

\* C26 witness: a directory and a file with content exist below the root, and
\* create on the directory and mkdir on the file end in EEXIST.
C26_Witness ==
  \E d \in Paths, f \in Paths :
    /\ d # <<>>
    /\ IsDirectory(St, d)
    /\ IsFile(St, f)
    /\ stat(St, f).size > 0
    /\ create(St, d).res = "EEXIST"
    /\ mkdir(St, f).res = "EEXIST"

\* The byte stored at file position pos of inode ino: that of the chunk the
\* position falls in when the chunk is there and long enough, zero otherwise.
StoredByte(s, ino, pos) ==
  LET k == <<ino, (pos \div chunkSize) * chunkSize>>
  IN IF k \in DOMAIN s.chunks /\ pos % chunkSize < s.chunks[k].length
     THEN s.chunks[k].data[(pos % chunkSize) + 1]
     ELSE 0

\* What C27 says of read(path, {offset: o, length: n}) made in store s.
ReadAsClaimed(s, path, o, n) ==
  LET r == read(s, path, [offset |-> o, length |-> n])
      ino == resolvePathToInode(s, path)
  IN /\ r.res = "ok"
     /\ Len(r.bytes) = n
     /\ \A i \in 1 .. n : r.bytes[i] = StoredByte(s, ino, o + i - 1)

\* C27: read(path, {offset, length}) of a path that resolves returns length
\* bytes, each the stored byte of its file position, zero where no chunk
\* covers the position: for the empty read and, from every offset of the
\* input set, the read of the longest length.
C27_ReadReturnsLength ==
  \A path \in Paths :
    resolvePathToInode(St, path) # 0
      => /\ ReadAsClaimed(St, path, 0, 0)
         /\ \A o \in Offsets : ReadAsClaimed(St, path, o, MaxData)

\* C27 witness: a file whose first chunk is missing and whose second chunk is
\* partial, so that a read from 0 crosses the gap, stored bytes and the end.
C27_Witness ==
  \E path \in Paths :
    LET ino == resolvePathToInode(St, path)
    IN /\ IsFile(St, path)
       /\ <<ino, 0>> \notin DOMAIN chunks
       /\ <<ino, chunkSize>> \in DOMAIN chunks
       /\ chunks[<<ino, chunkSize>>].length < chunkSize
       /\ read(St, path, [offset |-> 0, length |-> MaxData]).res = "ok"

\* C28: while a streaming writeFile waits for its next piece no other call
\* takes effect, so the path still names the file the call created and the
\* piece is never written through write's auto-create.
C28_UploadExclusive ==
  (upload # Idle /\ upload.pieces # <<>>) =>
     IsFile(St, upload.path)

\* The store a streaming writeFile leaves when it stops after k pieces of q
\* were written: the stream fails at the next pull, or the next piece is
\* refused with ENOSPC.  No other call runs during the upload.
StoppedAfter(s, path, q, k) ==
  LET done == writeFileStream(s, path, SubSeq(q, 1, k))
      more == writeFileStream(s, path, SubSeq(q, 1, k + 1))
  IN IF k < Len(q) /\ more.res = "ENOSPC" THEN more.s ELSE done.s

\* C29: when a streaming writeFile stops after k pieces were written, the
\* file is there and holds the concatenation of those k pieces, its size is
\* their total length and space_used has grown by that length.
C29_PartialUpload ==
  \A path \in Paths, q \in Streams, k \in 0 .. MaxPieces :
    LET written == Concat(SubSeq(q, 1, k))
        after == StoppedAfter(St, path, q, k)
    IN (k <= Len(q) /\ writeFileStream(St, path, SubSeq(q, 1, k)).res = "ok")
         => /\ readFile(after, path) = [res |-> "ok", bytes |-> written]
            /\ stat(after, path).size = Len(written)
            /\ getSpaceUsed(after) = getSpaceUsed(unlink(St, path).s) + Len(written)

\* C30: a successful write, truncate or unlink leaves space_used equal to the
\* sum of all chunk lengths, whatever the value was before the call.  Checked
\* for unlink in every reachable store; for truncate to every size and write
\* of every length at every offset in every reachable store whose space_used
\* is stale; and, in every store a rename to another path has just left stale,
\* for unlink, truncate to 0 and the longest write at offset 0 of that path.
C30_RecomputeRepairs ==
  /\ \A path \in Paths :
       /\ LET r == unlink(St, path) IN r.res = "ok" => SpaceUsedIsChunkSum(r.s)
       /\ ~SpaceUsedIsChunkSum(St) =>
            \A o \in Offsets :
              /\ LET r == truncate(St, path, o) IN r.res = "ok" => SpaceUsedIsChunkSum(r.s)
              /\ \A n \in 0 .. MaxData :
                   LET r == write(St, path, Ramp(n), o)
                   IN r.res = "ok" => SpaceUsedIsChunkSum(r.s)
  /\ \A old \in Paths, new \in Paths :
       LET m == rename(St, old, new)
           u == unlink(m.s, new)
           t == truncate(m.s, new, 0)
           w == write(m.s, new, Ramp(MaxData), 0)
       IN (old # new /\ m.res = "ok" /\ ~SpaceUsedIsChunkSum(m.s)) =>
            /\ u.res = "ok" => SpaceUsedIsChunkSum(u.s)
            /\ t.res = "ok" => SpaceUsedIsChunkSum(t.s)
            /\ w.res = "ok" => SpaceUsedIsChunkSum(w.s)

\* Reached: a rename leaves space_used different from the sum of the chunk
\* lengths, and an unlink, a truncate and a write of the renamed file succeed
\* in the store it left.
C30_Witness ==
  \E old \in Paths, new \in Paths :
    LET m == rename(St, old, new)
    IN /\ old # new
       /\ m.res = "ok"
       /\ ~SpaceUsedIsChunkSum(m.s)
       /\ IsFile(m.s, new)
       /\ unlink(m.s, new).res = "ok"
       /\ truncate(m.s, new, 0).res = "ok"
       /\ write(m.s, new, Ramp(MaxData), 0).res = "ok"

\* C31: constructing the engine again over the stored tables changes no row:
\* the chunks and the two meta values are as before, every files row is as
\* before, the only row that can appear is the root row when no row had
\* ino = 1, and a further construction changes nothing at all.
C31_InitIdempotent ==
  LET fs == constructor(St, [chunkSize |-> chunkSize])
  IN /\ fs.res = "ok"
     /\ fs.s.chunks = chunks
     /\ fs.s.meta = meta
     /\ \A i \in DOMAIN files : i \in DOMAIN fs.s.files /\ fs.s.files[i] = files[i]
     /\ DOMAIN fs.s.files \ DOMAIN files \subseteq {1}
     /\ 1 \notin DOMAIN files => fs.s.files[1] = rootRow
     /\ constructor(fs.s, [chunkSize |-> chunkSize]).s = fs.s

\* Reached: a store with a file that has chunks, space_used above 0 and a
\* device size other than the seeded one, over which the engine is
\* constructed again.
C31_Witness ==
  /\ \E path \in Paths : IsFile(St, path) /\ stat(St, path).size > 0
  /\ getSpaceUsed(St) > 0
  /\ getDeviceSize(St) # DefaultDeviceSize
  /\ constructor(St, [chunkSize |-> chunkSize]).res = "ok"

\* C32: rename(p, p) of an existing file, symlink or empty directory succeeds
\* and leaves the store as it was.
C32_RenameToItself ==
  \A path \in Paths :
    LET r == rename(St, path, path)
    IN (path # <<>> /\ Exists(St, path) /\ ~NonEmptyDirectory(St, path))
         => (r.res = "ok" /\ r.s = St)

\* The rows of f form a tree rooted at inode 1: the root row is there with
\* no parent, and from every row the parent links lead to it.
Tree(f) ==
  /\ 1 \in DOMAIN f
  /\ f[1].parent = 0
  /\ \A i \in DOMAIN f \ {1} : f[i].parent \in DOMAIN f
  /\ DOMAIN f \subseteq ReachableFrom(f, {1})

\* C33: in every reachable state the files table is a tree rooted at inode 1,
\* and it still is after a rename made there.
C33_FilesFormTree ==
  /\ Tree(files)
  /\ \A old \in Paths, new \in Paths : Tree(rename(St, old, new).s.files)

\* Every chunks row of s belongs to a files row of kind File.
ChunksBelongToFiles(s) ==
  \A key \in DOMAIN s.chunks :
    key[1] \in DOMAIN s.files /\ s.files[key[1]].attr.kind = "File"

\* C34: in every reachable state every chunks row has the inode of an existing
\* files row of kind File.
C34_NoOrphanChunks == ChunksBelongToFiles(St)

\* C35: rmdir(path) with path a regular file or a symlink fails and leaves the
\* files and chunks tables as they were.
C35_RmdirOnlyDirectories ==
  \A path \in Paths :
    LET r == rmdir(St, path)
    IN (Exists(St, path) /\ ~IsDirectory(St, path))
         => (r.res # "ok" /\ r.s.files = files /\ r.s.chunks = chunks)

\* C36: for every regular file of a reachable state, the pieces of
\* readFile(p) concatenated are the bytes read(p, {offset: 0}) returns.
C36_ReadFileAgreesWithRead ==
  \A path \in Paths :
    LET whole == read(St, path, [offset |-> 0])
        streamed == readFile(St, path)
    IN IsFile(St, path)
         => /\ streamed.res = "ok"
            /\ whole.res = "ok"
            /\ streamed.bytes = whole.bytes

\* The promise of request r has resolved or rejected.
Settled(r) == mgr.req[r].st \in {"resolved", "rejected"}

\* C37: every promise returned by sendRequest eventually settles, whatever
\* the connection does: a request that was made, queued ones included, is in
\* the end resolved or rejected.
C37_EveryRequestSettles ==
  \A r \in Requests : (mgr.req[r].st # "new") ~> Settled(r)

RECURSIVE Sum(_, _)
\* The sum of f over the set S.
Sum(f, S) ==
  IF S = {} THEN 0
  ELSE LET x == CHOOSE y \in S : TRUE IN f[x] + Sum(f, S \ {x})

\* The reconnectWebSocket calls between setting isReconnecting and their
\* open / error / timeout outcome.
InProgress(m) == Sum(m.attempts, Chains \X {"delay", "connecting"})

\* C38: at most one reconnection attempt is in progress at any time, and
\* while one is in progress isReconnecting stays true, whatever the order of
\* requests, timers and events of earlier replacement sockets.
C38_OneReconnection ==
  /\ InProgress(mgr) <= 1
  /\ InProgress(mgr) > 0 => mgr.isReconnecting

\* The frame names a file of an instance: its path is a string of at least
\* three components, the first a configured namespace, the second a slug
\* that namespace's getInstances() returns.
Routed(message, env) ==
  LET parts == SplitPath(message.path.chars)
  IN /\ message.path.type = "string"
     /\ Len(parts) >= 3
     /\ parts[1] \in dos
     /\ env.getInstances = "ok"
     /\ parts[2] \in env.instances

\* C39: the handler calls the engine's writeFile for a 'write' frame only if
\* the frame names a file of an instance, and then with the path that
\* remains after the first two components; for every other frame it writes
\* nothing and replies success: false with the id of the request.
C39_WriteOnlyToInstances ==
  \A message \in Messages, env \in Environments :
    LET h == onMessage(St, message, env)
        parts == SplitPath(message.path.chars)
    IN /\ h.call.called =>
            /\ Routed(message, env)
            /\ h.call.namespace = parts[1]
            /\ h.call.instance = parts[2]
            /\ h.call.path = SubSeq(parts, 3, Len(parts))
       /\ ~Routed(message, env) =>
            /\ ~h.call.called
            /\ h.s = St
            /\ h.response.success = FALSE
            /\ h.response.id = message.id

====
